---- MODULE Spec2Model ----
(***************************************************************************)
(* git-changelog: the parser module (src/src/parser.rs).                   *)
(*                                                                         *)
(* Changelog::try_from walks the configured repositories in order; for     *)
(* each one Repository::try_from builds the index commit-id -> annotated   *)
(* tag, walks the history oldest first, normalises every commit            *)
(* (Commit::try_from), classifies its message against PATTERN and folds    *)
(* the kept commits into groups closed at tagged commits.                  *)
(*                                                                         *)
(* Strings are modelled as sequences of tokens: a token is a maximal run   *)
(* of word characters or one single other character, so that the regular   *)
(* expression, starts_with and split act on them as they act on text.      *)
(* An object id is the pair <<first 7 hex digits, remaining 33>>.          *)
(***************************************************************************)
EXTENDS Integers, Sequences, FiniteSets, TLC

\* ---------------------------------------------------------------- bounds
\* Commits walked over the whole run (all repositories together).
MaxCommits == 3
\* Tag names enumerated over the whole run (all repositories together).
MaxTags == 2

\* ---------------------------------------------------------------- Option
None == <<>>
Some(x) == <<x>>
IsSome(o) == o # <<>>
Unwrap(o) == o[1]

\* ---------------------------------------------------------------- inputs
\* conf::Configuration.kinds: raw token -> canonical label.
Kinds == (<<"feat">> :> <<"Features">>) @@ (<<"fix">> :> <<"Bug", " ", "Fixes">>)

\* Link layouts handed to strfmt: literal pieces and {name} placeholders.
Lit(s) == [lit |-> s]
Var(n) == [var |-> n]
GoodLayout == <<Lit("https://x/"), Var("hash")>>
BadLayout == <<Lit("https://x/"), Var("id")>>

\* conf::Repository values.
Alpha(layout) ==
  [name |-> <<"alpha">>, scopes |-> Some({<<"api">>}), range |-> Some(<<"v0", "..", "HEAD">>),
   link |-> Some(layout)]
Beta == [name |-> <<"beta">>, scopes |-> None, range |-> None, link |-> None]

\* The configurations handed to Changelog::try_from.
Configurations ==
  { [kinds |-> Kinds, repositories |-> <<Alpha(layout), Beta>>] : layout \in {GoodLayout, BadLayout} }

\* The object id of the commit the walk yields at position p of a repository.
OidAt(p) == <<p, p>>

\* Commit summaries met in the histories.
MsgFeat == <<"feat", ":", " ", "a">>
MsgFixDb == <<"fix", "(", "db", ")", ":", " ", "b">>
MsgMergeBranch == <<"Merge", " ", "branch", " ", "'", "x", "'">>
MsgMergePR == <<"Merge", " ", "pull", " ", "request", " ", "#", "1">>
MsgNoPattern == <<"oops", " ", "no", " ", "pattern">>
MsgChore == <<"chore", ":", " ", "c">>

\* git::Commit as the accessors of Commit::try_from see it.
Raw(author, committer, summary, message, seconds) ==
  [author |-> author, committer |-> committer, summary |-> summary,
   message |-> message, seconds |-> seconds]

RawCommits ==
  { Raw(Some(<<"alice">>), Some(<<"bob">>), Some(MsgFeat), Some(MsgFeat), 86399),
    Raw(None, Some(<<"bob">>), None, Some(MsgFixDb), 86400),
    Raw(Some(<<"alice">>), Some(<<"bob">>), Some(MsgMergeBranch), Some(MsgMergeBranch), 0),
    Raw(Some(<<"alice">>), Some(<<"bob">>), Some(MsgMergePR), Some(MsgMergePR), 0),
    Raw(Some(<<"alice">>), Some(<<"bob">>), Some(MsgNoPattern), Some(MsgNoPattern), 0),
    Raw(Some(<<"alice">>), Some(<<"bob">>), Some(MsgChore), Some(MsgChore), 0),
    Raw(None, None, Some(MsgMergeBranch), Some(MsgMergeBranch), 0),
    Raw(Some(<<"alice">>), Some(<<"bob">>), None, None, 0) }

\* Names of the tag references, in the order tag_names yields them.
TagRefs == <<"v1", "v2", "v3", "v4">>
\* Walk positions an enumerated tag may point at.
TagTargets == {1, 2}

\* What revparse_single(tag name) yields for the k-th reference: an error, a
\* commit (lightweight tag) or an annotated tag object.
TagObjects(k) ==
  { [kind |-> "error"] }
  \cup { [kind |-> "commit", id |-> OidAt(1)] }
  \cup { [kind |-> "tag", id |-> <<100 + k, 0>>, name |-> <<TagRefs[k]>>, target |-> OidAt(p)] :
           p \in TagTargets }

\* ---------------------------------------------------------------- Commit::try_from
Ok(v) == [ok |-> TRUE, val |-> v]
Err(e) == [ok |-> FALSE, err |-> e]

\* Oid::to_string: the 40 hex digits, as the two chunks of the id.
OidToString(oid) == <<oid[1], oid[2]>>
\* String::truncate(7) on a 40-digit hash keeps the first chunk.
Truncate7(hash) == SubSeq(hash, 1, 1)

\* chrono: seconds since the epoch -> the UTC day ("%F").
FormatDate(seconds) == seconds \div 86400

RECURSIVE Strfmt(_, _)
\* strfmt(layout, vars): substitute the placeholders; an unknown key is an error.
Strfmt(layout, vars) ==
  IF layout = <<>> THEN Ok(<<>>)
  ELSE LET piece == Head(layout)
           rest == Strfmt(Tail(layout), vars)
       IN IF "var" \in DOMAIN piece /\ piece.var \notin DOMAIN vars
            THEN Err(<<"KeyError", piece.var>>)
          ELSE IF ~rest.ok THEN rest
          ELSE IF "var" \in DOMAIN piece THEN Ok(vars[piece.var] \o rest.val)
          ELSE Ok(<<piece.lit>> \o rest.val)

\* impl TryFrom<(&conf::Repository, &git::Commit)> for Commit
CommitTryFrom(repo, oid, raw) ==
  IF ~IsSome(raw.author) /\ ~IsSome(raw.committer)
    THEN Err(<<"No such author or commiter">>)
  ELSE IF ~IsSome(raw.summary) /\ ~IsSome(raw.message)
    THEN Err(<<"No such message or summary">>)
  ELSE
    LET author == IF IsSome(raw.author) THEN Unwrap(raw.author) ELSE Unwrap(raw.committer)
        message == IF IsSome(raw.summary) THEN Unwrap(raw.summary) ELSE Unwrap(raw.message)
        hash == OidToString(oid)
        date == FormatDate(raw.seconds)
        fmt == IF IsSome(repo.link)
                 THEN Strfmt(Unwrap(repo.link), [hash |-> hash])
                 ELSE Ok(<<>>)
    IN IF ~fmt.ok THEN Err(<<"could not format commit link">> \o fmt.err)
       ELSE Ok([hash |-> Truncate7(hash), message |-> message, author |-> author,
                date |-> date,
                link |-> IF IsSome(repo.link) THEN Some(fmt.val) ELSE None])

\* ---------------------------------------------------------------- PATTERN
\* Characters outside the class [\w \-\./\\] that occur in the messages.
Punctuation == {"(", ")", ":", "'", "#", ",", "!", "\""}
InClass(tok) == tok \notin Punctuation

\* The end (exclusive) of the greedy run [\w \-\./\\]+ starting at i.
RECURSIVE RunEnd(_, _)
RunEnd(m, i) == IF i <= Len(m) /\ InClass(m[i]) THEN RunEnd(m, i + 1) ELSE i

\* ": " followed by a message of at least one class character, at position j.
ColonMessageAt(m, j) ==
  /\ j + 2 <= Len(m)
  /\ m[j] = ":"
  /\ m[j + 1] = " "
  /\ InClass(m[j + 2])

\* The captures of PATTERN when the match starts at i: kind is the greedy run
\* (a shorter kind is followed by a class character, never by "(" or ":"), the
\* scope group is taken when it leads to a match.
MatchAt(m, i) ==
  LET e == RunEnd(m, i)
      s == RunEnd(m, e + 1)
  IN IF e = i THEN None
     ELSE IF /\ e <= Len(m) /\ m[e] = "("
             /\ s > e + 1 /\ s <= Len(m) /\ m[s] = ")"
             /\ ColonMessageAt(m, s + 1)
       THEN Some([kind |-> SubSeq(m, i, e - 1), scope |-> Some(SubSeq(m, e + 1, s - 1))])
     ELSE IF ColonMessageAt(m, e)
       THEN Some([kind |-> SubSeq(m, i, e - 1), scope |-> None])
     ELSE None

\* The first match of PATTERN starting at i or later.
RECURSIVE MatchFrom(_, _)
MatchFrom(m, i) ==
  IF i > Len(m) THEN None
  ELSE LET here == MatchAt(m, i)
       IN IF IsSome(here) THEN here ELSE MatchFrom(m, i + 1)

\* Regex::captures: the leftmost match of the unanchored PATTERN.
Captures(m) == MatchFrom(m, 1)

\* str::starts_with on token sequences.
StartsWith(m, prefix) ==
  Len(m) >= Len(prefix) /\ SubSeq(m, 1, Len(prefix)) = prefix

IsMergeCommit(m) ==
  \/ StartsWith(m, <<"Merge", " ", "pull", " ", "request">>)
  \/ StartsWith(m, <<"Merge", " ", "branch">>)

\* str::split(','): the pieces between the commas.
RECURSIVE Split(_, _)
Split(s, sep) ==
  LET cut == {i \in 1..Len(s) : s[i] = sep}
  IN IF cut = {} THEN <<s>>
     ELSE LET c == CHOOSE i \in cut : \A j \in cut : i <= j
          IN <<SubSeq(s, 1, c - 1)>> \o Split(SubSeq(s, c + 1, Len(s)), sep)

\* ---------------------------------------------------------------- classification
\* Mutant: the raw kind token is used as the label.
CanonicalLabelRaw(kinds, kind) == kind

\* kinds.get(&kind): the canonical label of a raw kind token.
CanonicalLabel(kinds, kind) == kinds[kind]

\* The warnings of the scope check: one per sub-scope outside conf.scopes.
\* The `continue` of that loop continues the loop over the sub-scopes.
ScopeWarnings(repo, scope) ==
  IF IsSome(scope) /\ IsSome(repo.scopes)
    THEN LET subs == Split(Unwrap(scope), ",")
         IN SelectSeq(subs, LAMBDA sub : sub \notin Unwrap(repo.scopes))
    ELSE <<>>

\* Mutant: the `continue` of the scope check skips the commit.
ClassifyStrictScope(kinds, repo, m) ==
  IF IsMergeCommit(m) THEN [outcome |-> "merge"]
  ELSE LET c == Captures(m)
       IN IF ~IsSome(c) THEN [outcome |-> "pattern"]
          ELSE IF Unwrap(c).kind \notin DOMAIN kinds THEN [outcome |-> "kind"]
          ELSE [outcome |-> IF ScopeWarnings(repo, Unwrap(c).scope) # <<>> THEN "scope" ELSE "keep",
                kind |-> Unwrap(c).kind, scope |-> Unwrap(c).scope,
                label |-> CanonicalLabel(kinds, Unwrap(c).kind)]

\* The part of the loop body between normalisation and the accumulator: which
\* `continue` a message takes, or the label of the bucket it is pushed to.
Classify(kinds, repo, m) ==
  IF IsMergeCommit(m) THEN [outcome |-> "merge"]
  ELSE LET c == Captures(m)
       IN IF ~IsSome(c) THEN [outcome |-> "pattern"]
          ELSE IF Unwrap(c).kind \notin DOMAIN kinds THEN [outcome |-> "kind"]
          ELSE [outcome |-> "keep", kind |-> Unwrap(c).kind, scope |-> Unwrap(c).scope,
                label |-> CanonicalLabel(kinds, Unwrap(c).kind)]

\* What the loop body logs for a message.
LogOf(kinds, repo, m) ==
  LET cl == Classify(kinds, repo, m)
  IN IF cl.outcome = "merge" THEN <<[level |-> "info", msg |-> "Skip merge commit"]>>
     ELSE IF cl.outcome = "pattern"
       THEN <<[level |-> "error", msg |-> "Could not parse the message"]>>
     ELSE IF cl.outcome = "kind"
       THEN <<[level |-> "warn", msg |-> "Kind is not contained in provided kinds"],
              [level |-> "warn", msg |-> "Skip commit"]>>
     ELSE [i \in 1..Len(ScopeWarnings(repo, cl.scope)) |->
             [level |-> "warn", msg |-> "Scope is not contained in provided scopes"]]

\* ---------------------------------------------------------------- HashMap<String, Vec<Commit>>
\* The accumulator is a std HashMap: its iteration order is the order of the
\* hashes of its keys under a per-map random seed.  A map is modelled as the
\* sequence of its entries in iteration order; a new key takes any place.
Keys(map) == {map[i].key : i \in DOMAIN map}
IsEmpty(map) == map = <<>>
InsertAt(seq, p, e) == SubSeq(seq, 1, p - 1) \o <<e>> \o SubSeq(seq, p, Len(seq))

\* Mutant: map.insert(key, vec![commit]), which replaces the bucket.
EntryPushOverwrite(map, key, commit) ==
  IF key \in Keys(map)
    THEN { [i \in DOMAIN map |->
              IF map[i].key = key THEN [key |-> key, val |-> <<commit>>] ELSE map[i]] }
    ELSE { InsertAt(map, p, [key |-> key, val |-> <<commit>>]) : p \in 1..(Len(map) + 1) }

\* map.entry(key).or_insert_with(Vec::new).push(commit): the maps that may result.
EntryPush(map, key, commit) ==
  IF key \in Keys(map)
    THEN { [i \in DOMAIN map |->
              IF map[i].key = key
                THEN [key |-> key, val |-> Append(map[i].val, commit)]
                ELSE map[i]] }
    ELSE { InsertAt(map, p, [key |-> key, val |-> <<commit>>]) : p \in 1..(Len(map) + 1) }

\* ---------------------------------------------------------------- Tag, Repository
TechnicalPreview == <<"Technical", " ", "preview">>

\* impl From<(String, HashMap<String, Vec<Commit>>)> for Tag
TagFrom(name, map) == [name |-> name, commits |-> map]
\* impl From<String> for Repository
RepositoryFrom(name) == [name |-> name, tags |-> <<>>]

\* Mutant: a commit is taken for a tag pointing at itself.
IntoTagAnyObject(object) ==
  IF object.kind = "tag"
    THEN Ok([name |-> object.name, target |-> object.target])
    ELSE Ok([name |-> <<"lightweight">>, target |-> object.id])

\* object.into_tag(): only a tag object casts into a tag.
IntoTag(object) ==
  IF object.kind = "tag"
    THEN Ok([name |-> object.name, target |-> object.target])
    ELSE Err(object)

\* tags.insert(tag.target_id().to_string(), tag) on the commit-id -> tag index.
IndexInsert(index, tag) == (OidToString(tag.target) :> tag) @@ index

\* Mutant: the accumulator is not renewed after the group is pushed.
CloseGroupKeep(groups, name, map) == [tags |-> Append(groups, [name |-> name, commits |-> map]), commits |-> map]

\* The tagged-commit branch at the end of the loop body: the group is pushed
\* and the accumulator becomes a new map.
CloseGroup(groups, name, map) == [tags |-> Append(groups, TagFrom(name, map)), commits |-> <<>>]

\* Mutant: the preview group is pushed whatever the accumulator holds.
PushPreviewAlways(groups, map) == Append(groups, [name |-> TechnicalPreview, commits |-> map])

\* After the walk: the unflushed commits become the "Technical preview" group.
PushPreview(groups, map) ==
  IF ~IsEmpty(map) THEN Append(groups, TagFrom(TechnicalPreview, map)) ELSE groups

\* Mutant: the groups are left in closing order.
ReverseNot(seq) == seq

\* Vec::reverse
Reverse(seq) == [i \in 1..Len(seq) |-> seq[Len(seq) + 1 - i]]

\* ---------------------------------------------------------------- Changelog::try_from
\* Mutant: the failing repository is left out and the rest is returned.
RepositoryErrorPartial(pushed, name, err) == Ok([repositories |-> pushed])

\* The `?` of Changelog::try_from: the error of a repository, with its name;
\* the repositories pushed so far are dropped with the local changelog.
RepositoryError(pushed, name, err) == Err(<<"could not process repository", name>> \o err)

\* ---------------------------------------------------------------- state
VARIABLES
  conf,        \* the Configuration handed to Changelog::try_from
  pc,          \* where Changelog::try_from stands
  idx,         \* position in conf.repositories of the repository being processed
  changelog,   \* changelog.repositories
  result,      \* the value Changelog::try_from returned, None while it runs
  repository,  \* the Repository being built by Repository::try_from
  tags,        \* the index commit id -> annotated tag
  commits,     \* the accumulator kind label -> commits
  walked,      \* history: the commits the walk of this repository has yielded
  tagObjs,     \* history: the objects the tag names of this repository resolved to
  nCommits,    \* commits yielded so far, all repositories together
  nTags,       \* tag names enumerated so far, all repositories together
  logged       \* the log records of the last step

vars ==
  <<conf, pc, idx, changelog, result, repository, tags, commits, walked, tagObjs,
    nCommits, nTags, logged>>

Init ==
  /\ conf \in Configurations
  /\ pc = "changelog"
  /\ idx = 1
  /\ changelog = <<>>
  /\ result = None
  /\ repository = RepositoryFrom(<<>>)
  /\ tags = <<>>
  /\ commits = <<>>
  /\ walked = <<>>
  /\ tagObjs = <<>>
  /\ nCommits = 0
  /\ nTags = 0
  /\ logged = <<>>

Repositories == conf.repositories
Conf == Repositories[idx]

\* A fatal error inside Repository::try_from: both try_from return.
Fail(err) ==
  /\ result' = Some(RepositoryError(changelog, Conf.name, err))
  /\ pc' = "done"

\* Repository::try_from starts: Repository::from, discover, the empty tag
\* index, tag_names.
OpenRepository ==
  /\ pc = "changelog"
  /\ idx <= Len(Repositories)
  /\ \E outcome \in {"ok", "discover", "tag_names"} :
       IF outcome = "ok"
         THEN /\ pc' = "tags"
              /\ repository' = RepositoryFrom(Conf.name)
              /\ tags' = <<>>
              /\ UNCHANGED result
         ELSE /\ Fail(IF outcome = "discover"
                        THEN <<"could not retrieve git repository">>
                        ELSE <<"could not retrieve git tags">>)
              /\ UNCHANGED <<repository, tags>>
  /\ logged' = <<>>
  /\ UNCHANGED <<conf, idx, changelog, commits, walked, tagObjs, nCommits, nTags>>

\* One iteration of the loop over the tag names.
IndexTag ==
  /\ pc = "tags"
  /\ nTags < MaxTags
  /\ nTags' = nTags + 1
  /\ \E object \in TagObjects(Len(tagObjs) + 1) :
       /\ tagObjs' = Append(tagObjs, object)
       /\ IF object.kind = "error"
            THEN /\ Fail(<<"could not retrieve object for tag">>)
                 /\ logged' = <<>>
                 /\ UNCHANGED tags
            ELSE LET tag == IntoTag(object)
                 IN /\ UNCHANGED <<pc, result>>
                    /\ IF tag.ok
                         THEN /\ tags' = IndexInsert(tags, tag.val)
                              /\ logged' = <<>>
                         ELSE /\ logged' = <<[level |-> "warn",
                                              msg |-> "could not cast object into tag"]>>
                              /\ UNCHANGED tags
  /\ UNCHANGED <<conf, idx, changelog, repository, commits, walked, nCommits>>

\* The tag names are exhausted: revwalk, push_range or push_head, set_sorting,
\* the empty accumulator.
StartWalk ==
  /\ pc = "tags"
  /\ \E outcome \in {"ok", "revwalk", "push", "sorting"} :
       IF outcome = "ok"
         THEN /\ pc' = "walk"
              /\ commits' = <<>>
              /\ tagObjs' = <<>>
              /\ UNCHANGED result
         ELSE /\ Fail(IF outcome = "revwalk" THEN <<"could create a walker on git history">>
                      ELSE IF outcome = "sorting" THEN <<"failed to sort git commit history">>
                      ELSE IF IsSome(Conf.range) THEN <<"could not parse commit range">>
                      ELSE <<"could not push HEAD commit">>)
              /\ UNCHANGED <<commits, tagObjs>>
  /\ logged' = <<>>
  /\ UNCHANGED <<conf, idx, changelog, repository, tags, walked, nCommits, nTags>>

\* One iteration of the loop over the walk: the next commit, oldest first.
WalkCommit ==
  /\ pc = "walk"
  /\ nCommits < MaxCommits
  /\ nCommits' = nCommits + 1
  /\ \E raw \in RawCommits :
       LET oid == OidAt(Len(walked) + 1)
           commit == CommitTryFrom(Conf, oid, raw)
       IN /\ walked' = Append(walked, [oid |-> oid, raw |-> raw])
          /\ IF ~commit.ok
               THEN /\ Fail(<<"could not parse commit", oid>> \o commit.err)
                    /\ logged' = <<>>
                    /\ UNCHANGED <<repository, commits>>
               ELSE LET cl == Classify(conf.kinds, Conf, commit.val.message)
                    IN /\ UNCHANGED <<pc, result>>
                       /\ logged' = LogOf(conf.kinds, Conf, commit.val.message)
                       /\ IF cl.outcome # "keep"
                            THEN UNCHANGED <<repository, commits>>
                            ELSE \E map \in EntryPush(commits, cl.label, commit.val) :
                                   IF OidToString(oid) \in DOMAIN tags
                                     THEN LET closed == CloseGroup(repository.tags,
                                                          tags[OidToString(oid)].name, map)
                                          IN /\ repository' = [repository EXCEPT !.tags = closed.tags]
                                             /\ commits' = closed.commits
                                     ELSE /\ commits' = map
                                          /\ UNCHANGED repository
  /\ UNCHANGED <<conf, idx, changelog, tags, tagObjs, nTags>>

\* The walk yields an error instead of a commit (the oid, or find_commit).
WalkError ==
  /\ pc = "walk"
  /\ \E err \in {<<"could not retrieve object identifier">>, <<"could not retrieve commit">>} :
       Fail(err)
  /\ logged' = <<>>
  /\ UNCHANGED <<conf, idx, changelog, repository, tags, commits, walked, tagObjs, nCommits, nTags>>

\* The walk is exhausted: the preview group and the reversal.  The
\* accumulator was moved into the preview group or is left empty.
EndWalk ==
  /\ pc = "walk"
  /\ repository' = [repository EXCEPT !.tags = Reverse(PushPreview(repository.tags, commits))]
  /\ commits' = <<>>
  /\ pc' = "walked"
  /\ logged' = <<>>
  /\ UNCHANGED <<conf, idx, changelog, result, tags, walked, tagObjs, nCommits, nTags>>

\* Ok(repository), dropping the locals of Repository::try_from, then
\* changelog.repositories.push(repository) and the next iteration.
PushRepository ==
  /\ pc = "walked"
  /\ changelog' = Append(changelog, repository)
  /\ idx' = idx + 1
  /\ pc' = "changelog"
  /\ repository' = RepositoryFrom(<<>>)
  /\ tags' = <<>>
  /\ walked' = <<>>
  /\ logged' = <<>>
  /\ UNCHANGED <<conf, result, commits, tagObjs, nCommits, nTags>>

\* Every repository is processed: Ok(changelog).
Finish ==
  /\ pc = "changelog"
  /\ idx > Len(Repositories)
  /\ result' = Some(Ok([repositories |-> changelog]))
  /\ pc' = "done"
  /\ logged' = <<>>
  /\ UNCHANGED <<conf, idx, changelog, repository, tags, commits, walked, tagObjs, nCommits, nTags>>

Next ==
  \/ OpenRepository
  \/ IndexTag
  \/ StartWalk
  \/ WalkCommit
  \/ WalkError
  \/ EndWalk
  \/ PushRepository
  \/ Finish

Spec == Init /\ [][Next]_vars

\* ---------------------------------------------------------------- vocabulary of the properties
Range(f) == {f[x] : x \in DOMAIN f}
Max(S) == CHOOSE x \in S : \A y \in S : y <= x

\* The walk position of a stored commit: the first chunk of its hash.
Pos(commit) == commit.hash[1]
\* The places <<entry, index>> of the commits a kind -> commits map holds.
Slots(map) == UNION {{<<e, n>> : n \in DOMAIN map[e].val} : e \in DOMAIN map}
\* The walk positions of those commits.
PosOf(map) == {Pos(map[sl[1]].val[sl[2]]) : sl \in Slots(map)}
\* How many times the commit walked at position i is stored in a map.
CountIn(map, i) == Cardinality({sl \in Slots(map) : Pos(map[sl[1]].val[sl[2]]) = i})
\* The kind -> commits maps of the repository being built: the accumulator
\* (numbered 0) and the groups.
MapAt(g) == IF g = 0 THEN commits ELSE repository.tags[g].commits
CurrentMaps == {MapAt(g) : g \in {0} \cup DOMAIN repository.tags}
\* The places of the commits stored in the repository being built.
StoredSlots ==
  UNION {{<<g, sl[1], sl[2]>> : sl \in Slots(MapAt(g))} : g \in {0} \cup DOMAIN repository.tags}
SlotCommit(s) == MapAt(s[1])[s[2]].val[s[3]]
\* How many times the commit walked at position i is stored in it.
Stored(i) == Cardinality({s \in StoredSlots : Pos(SlotCommit(s)) = i})
\* The kind -> commits maps of the changelog once it is returned.
ReturnedMaps ==
  IF pc = "done" /\ Unwrap(result).ok
    THEN UNION {{Unwrap(result).val.repositories[r].tags[g].commits :
                   g \in DOMAIN Unwrap(result).val.repositories[r].tags} :
                r \in DOMAIN Unwrap(result).val.repositories}
    ELSE {}
\* Every kind -> commits map of the walk and of the final result.
AllMaps == CurrentMaps \cup ReturnedMaps

InWalk == pc \in {"walk", "walked"}
\* The messages of the histories, with their merge prefix test and their
\* captures.
Messages ==
  {Unwrap(raw.summary) : raw \in {r \in RawCommits : IsSome(r.summary)}}
  \cup {Unwrap(raw.message) : raw \in {r \in RawCommits : IsSome(r.message)}}
MergeOf == [m \in Messages |-> IsMergeCommit(m)]
ParsedOf == [m \in Messages |-> Captures(m)]
Normalised(i) == CommitTryFrom(Conf, walked[i].oid, walked[i].raw)
\* The message of a walked commit: its summary, else its whole message.
MessageAt(i) ==
  IF IsSome(walked[i].raw.summary)
    THEN Unwrap(walked[i].raw.summary)
    ELSE Unwrap(walked[i].raw.message)
IsMergeAt(i) == MergeOf[MessageAt(i)]
MatchesAt(i) == ~IsMergeAt(i) /\ IsSome(ParsedOf[MessageAt(i)])
KindAt(i) == Unwrap(ParsedOf[MessageAt(i)]).kind
ScopeAt(i) == Unwrap(ParsedOf[MessageAt(i)]).scope
\* Not skipped: not a merge commit, matches the pattern, kind in the vocabulary.
KeptAt(i) ==
  LET m == MessageAt(i)
  IN ~MergeOf[m] /\ IsSome(ParsedOf[m]) /\ Unwrap(ParsedOf[m]).kind \in DOMAIN Kinds
KeptSet == {i \in DOMAIN walked : KeptAt(i)}
TaggedAt(i) == OidToString(walked[i].oid) \in DOMAIN tags
TagNameAt(i) == tags[OidToString(walked[i].oid)].name
\* The last tagged commit walked before position i, 0 when there is none.
PrevTagged(i) == Max({0} \cup {j \in 1..(i - 1) : TaggedAt(j)})
TagGroups == {g \in DOMAIN repository.tags : repository.tags[g].name # TechnicalPreview}
PreviewGroups == {g \in DOMAIN repository.tags : repository.tags[g].name = TechnicalPreview}

\* ---------------------------------------------------------------- C1
\* C1 (as claimed): when the walk is over, every walked commit the index
\* maps to a tag t, kept or skipped, has closed a group named t that holds
\* exactly the kept commits walked after the previous tagged commit up to
\* it, and no other group mixes commits walked up to it with later ones.
C1_TagBoundaryClosesGroup ==
  pc = "walked" =>
    \A i \in DOMAIN walked :
      TaggedAt(i) =>
        \E g \in DOMAIN repository.tags :
          /\ repository.tags[g].name = TagNameAt(i)
          /\ PosOf(repository.tags[g].commits) = {j \in (PrevTagged(i) + 1)..i : KeptAt(j)}
          /\ \A h \in DOMAIN repository.tags \ {g} :
               \/ \A p \in PosOf(repository.tags[h].commits) : p <= PrevTagged(i)
               \/ \A p \in PosOf(repository.tags[h].commits) : p > i

\* ---------------------------------------------------------------- C2
\* C2: while the walk runs and when it is over, every walked commit that is
\* not skipped is stored exactly once (one group or the accumulator, one
\* bucket), as the record its normalisation gives, under the label of its
\* kind; every skipped commit is stored nowhere; so the stored commits
\* number the walked ones minus the merge, pattern and unknown-kind skips.
C2_Conservation ==
  InWalk =>
    LET slots == StoredSlots
        kept == KeptSet
        merges == {i \in DOMAIN walked : IsMergeAt(i)}
        matches == {i \in DOMAIN walked : MatchesAt(i)}
        patterns == (DOMAIN walked \ merges) \ matches
        unknowns == matches \ kept
    IN /\ \A i \in DOMAIN walked :
            Cardinality({s \in slots : Pos(SlotCommit(s)) = i}) = IF i \in kept THEN 1 ELSE 0
       /\ \A s \in slots :
            /\ Pos(SlotCommit(s)) \in DOMAIN walked
            /\ SlotCommit(s) = Normalised(Pos(SlotCommit(s))).val
       /\ Cardinality(slots)
            = Len(walked) - (Cardinality(merges) + Cardinality(patterns) + Cardinality(unknowns))

C2_Witness ==
  /\ pc = "walked"
  /\ Len(walked) = 3
  /\ Cardinality(KeptSet) = 2
  /\ Cardinality(StoredSlots) = 2
  /\ \E i \in DOMAIN walked : IsMergeAt(i)

\* ---------------------------------------------------------------- C3
\* C3: when the walk is over the groups are newest first: every commit of a
\* group was walked after every commit of the groups that follow it, and a
\* "Technical preview" group is the first one; during the walk the groups
\* are in closing order; in every bucket the commits are in walk order.
C3_Ordering ==
  /\ pc = "walked" =>
       /\ \A a, b \in DOMAIN repository.tags :
            a < b => \A p \in PosOf(repository.tags[a].commits) :
                       \A q \in PosOf(repository.tags[b].commits) : p > q
       /\ \A g \in PreviewGroups : g = 1
  /\ pc = "walk" =>
       \A a, b \in DOMAIN repository.tags :
         a < b => \A p \in PosOf(repository.tags[a].commits) :
                    \A q \in PosOf(repository.tags[b].commits) : p < q
  /\ \A map \in AllMaps : \A e \in DOMAIN map : \A m, n \in DOMAIN map[e].val :
       m < n => Pos(map[e].val[m]) < Pos(map[e].val[n])

C3_Witness ==
  /\ pc = "walked"
  /\ Len(repository.tags) = 2
  /\ repository.tags[1].name = TechnicalPreview
  /\ \E e \in DOMAIN repository.tags[2].commits : Len(repository.tags[2].commits[e].val) = 2

\* ---------------------------------------------------------------- C4
\* C4: in every state every key of the accumulator and of every group is a
\* value of Kinds, every commit stored under a key has a message whose
\* parsed kind k has Kinds[k] equal to that key, and a walked commit whose
\* parsed kind is no key of Kinds is stored nowhere.
C4_KindVocabulary ==
  /\ \A map \in AllMaps : \A e \in DOMAIN map :
       /\ map[e].key \in Range(Kinds)
       /\ \A n \in DOMAIN map[e].val :
            LET c == ParsedOf[map[e].val[n].message]
            IN /\ IsSome(c)
               /\ Unwrap(c).kind \in DOMAIN Kinds
               /\ Kinds[Unwrap(c).kind] = map[e].key
  /\ InWalk =>
       \A i \in DOMAIN walked : (MatchesAt(i) /\ KindAt(i) \notin DOMAIN Kinds) => Stored(i) = 0

C4_Witness ==
  /\ pc = "walk"
  /\ Keys(commits) = Range(Kinds)
  /\ \E i \in DOMAIN walked : MatchesAt(i) /\ KindAt(i) \notin DOMAIN Kinds

\* ---------------------------------------------------------------- C5
\* C5: when the walk is over there is a "Technical preview" group exactly
\* when some kept commit was walked after the last commit of the tag groups
\* (the last closure); there is at most one, it holds exactly those commits,
\* and it is the first group of the result.
Unflushed ==
  LET closed == UNION {PosOf(repository.tags[g].commits) : g \in TagGroups}
  IN {i \in KeptSet : \A p \in closed : p < i}

C5_TechnicalPreview ==
  pc = "walked" =>
    LET unflushed == Unflushed
    IN /\ (PreviewGroups # {}) <=> (unflushed # {})
       /\ Cardinality(PreviewGroups) <= 1
       /\ \A g \in PreviewGroups :
            /\ g = 1
            /\ PosOf(repository.tags[g].commits) = unflushed
            /\ \A i \in unflushed : CountIn(repository.tags[g].commits, i) = 1

C5_Witness ==
  /\ pc = "walked"
  /\ Len(repository.tags) = 2
  /\ PreviewGroups = {1}
  /\ Cardinality(Unflushed) = 2

\* A walk that ends right at a closure gives no preview group.
C5_WitnessNoPreview ==
  /\ pc = "walked"
  /\ Len(repository.tags) = 1
  /\ PreviewGroups = {}
  /\ \E i \in DOMAIN walked : ~KeptAt(i) /\ i = Len(walked)

\* ---------------------------------------------------------------- C6
Returned == IsSome(result)
\* The last walked commit does not normalise.
NormalisationFailed == walked # <<>> /\ ~Normalised(Len(walked)).ok

\* C6: the repositories are processed in configuration order; a repository
\* whose access fails or one of whose walked commits does not normalise
\* (a merge commit included) makes Changelog::try_from return an error with
\* that repository's name and no changelog, without going on to the next
\* ones; otherwise the changelog returned has one result per configured
\* repository, in configuration order.
C6_AllOrNothing ==
  /\ Returned <=> pc = "done"
  /\ Len(changelog) = idx - 1
  /\ \A k \in DOMAIN changelog : changelog[k].name = Repositories[k].name
  /\ NormalisationFailed => Returned /\ ~Unwrap(result).ok
  /\ Returned =>
       LET r == Unwrap(result)
       IN IF r.ok
            THEN /\ idx = Len(Repositories) + 1
                 /\ r.val.repositories = changelog
                 /\ Len(r.val.repositories) = Len(Repositories)
            ELSE /\ idx <= Len(Repositories)
                 /\ DOMAIN r = {"ok", "err"}
                 /\ r.err[1] = "could not process repository"
                 /\ r.err[2] = Repositories[idx].name

\* The second repository fails on a merge commit without identity after the
\* first one was processed and pushed.
C6_Witness ==
  /\ pc = "done"
  /\ ~Unwrap(result).ok
  /\ idx = 2
  /\ Len(changelog) = 1
  /\ changelog[1].tags # <<>>
  /\ NormalisationFailed
  /\ IsMergeCommit(Unwrap(walked[Len(walked)].raw.summary))

\* ---------------------------------------------------------------- C7
Annotated == {k \in DOMAIN tagObjs : tagObjs[k].kind = "tag"}
AbortedOnTag ==
  /\ Returned
  /\ ~Unwrap(result).ok
  /\ Unwrap(result).err[3] = "could not retrieve object for tag"

\* C7 (as claimed): a tag whose resolution fails or whose object is no tag
\* object does not abort the repository, and the index holds the entry
\* target -> tag of every annotated tag enumerated.
C7_TagsNeverAbort ==
  /\ ~AbortedOnTag
  /\ pc = "tags" =>
       /\ DOMAIN tags = {OidToString(tagObjs[k].target) : k \in Annotated}
       /\ \A k \in Annotated : tags[OidToString(tagObjs[k].target)].name = tagObjs[k].name

\* C7 (amended): a tag name that resolves to an object that is no tag object
\* is skipped with a warning and the loop goes on; a tag name whose
\* resolution fails aborts the repository (and the run) with an error; while
\* the loop runs the index maps the target of every annotated tag enumerated
\* to the last enumerated annotated tag with that target, and nothing else.
C7_LightweightSkippedResolutionFatal ==
  /\ pc = "tags" =>
       /\ ~Returned
       /\ \A k \in DOMAIN tagObjs : tagObjs[k].kind # "error"
       /\ DOMAIN tags = {OidToString(tagObjs[k].target) : k \in Annotated}
       /\ \A key \in DOMAIN tags :
            LET last == Max({k \in Annotated : OidToString(tagObjs[k].target) = key})
            IN /\ tags[key].name = tagObjs[last].name
               /\ tags[key].target = tagObjs[last].target
       /\ (tagObjs # <<>> /\ tagObjs[Len(tagObjs)].kind = "commit") =>
            logged = <<[level |-> "warn", msg |-> "could not cast object into tag"]>>
  /\ (tagObjs # <<>> /\ tagObjs[Len(tagObjs)].kind = "error") =>
       /\ pc = "done"
       /\ AbortedOnTag
       /\ Unwrap(result).err[2] = Repositories[idx].name

C7_Witness ==
  /\ pc = "tags"
  /\ Len(tagObjs) = 2
  /\ tagObjs[1].kind = "tag"
  /\ tagObjs[2].kind = "commit"
  /\ tagObjs[2].id = tagObjs[1].target
  /\ Cardinality(DOMAIN tags) = 1

\* ---------------------------------------------------------------- C8
\* C8 (as claimed): in every kind -> commits map the kinds are in the order
\* in which their first commits were walked.
C8_KindsInFirstAppearanceOrder ==
  \A map \in AllMaps : \A a, b \in DOMAIN map :
    a < b => Pos(map[a].val[1]) < Pos(map[b].val[1])

\* ---------------------------------------------------------------- C9
\* A sub-scope of the parsed scope is outside the scopes of the repository.
ScopeMismatchAt(i) ==
  /\ IsSome(Conf.scopes)
  /\ IsSome(ScopeAt(i))
  /\ \E k \in DOMAIN Split(Unwrap(ScopeAt(i)), ",") :
       Split(Unwrap(ScopeAt(i)), ",")[k] \notin Unwrap(Conf.scopes)

\* C9: a kept commit with a scope outside the scopes of the repository is
\* stored exactly once, in the bucket of the label of its kind, and when it
\* is tagged it is the last commit of a group named after its tag.
C9_ScopeMismatchKept ==
  InWalk =>
    \A i \in DOMAIN walked :
      (KeptAt(i) /\ ScopeMismatchAt(i)) =>
        /\ Stored(i) = 1
        /\ \E map \in CurrentMaps :
             \E e \in DOMAIN map :
               /\ map[e].key = Kinds[KindAt(i)]
               /\ \E n \in DOMAIN map[e].val : Pos(map[e].val[n]) = i
        /\ TaggedAt(i) =>
             \E g \in DOMAIN repository.tags :
               /\ repository.tags[g].name = TagNameAt(i)
               /\ Max(PosOf(repository.tags[g].commits)) = i

C9_Witness ==
  /\ pc = "walk"
  /\ \E i \in DOMAIN walked : KeptAt(i) /\ ScopeMismatchAt(i) /\ TaggedAt(i) /\ Stored(i) = 1
  /\ \E i \in DOMAIN walked : KeptAt(i) /\ ScopeMismatchAt(i) /\ ~TaggedAt(i) /\ Stored(i) = 1

\* ---------------------------------------------------------------- C10
\* C10: in every state every group has a bucket and every bucket a commit;
\* when the last walked commit is in a closed group the accumulator is
\* empty; the accumulator shares no commit with the groups; the last commit
\* of a tag group is the commit its tag points at.
C10_NoEmptyGroupFreshAccumulator ==
  /\ \A g \in DOMAIN repository.tags : repository.tags[g].commits # <<>>
  /\ (pc = "done" /\ Unwrap(result).ok) =>
       \A r \in DOMAIN Unwrap(result).val.repositories :
         \A g \in DOMAIN Unwrap(result).val.repositories[r].tags :
           Unwrap(result).val.repositories[r].tags[g].commits # <<>>
  /\ \A map \in AllMaps : \A e \in DOMAIN map : map[e].val # <<>>
  /\ InWalk =>
       /\ \A g \in DOMAIN repository.tags :
            Len(walked) \in PosOf(repository.tags[g].commits) => commits = <<>>
       /\ \A g \in DOMAIN repository.tags :
            PosOf(repository.tags[g].commits) \cap PosOf(commits) = {}
       /\ \A g \in TagGroups :
            LET last == Max(PosOf(repository.tags[g].commits))
            IN TaggedAt(last) /\ TagNameAt(last) = repository.tags[g].name

C10_Witness ==
  /\ pc = "walk"
  /\ Len(walked) = 2
  /\ Len(repository.tags) = 1
  /\ Cardinality(PosOf(repository.tags[1].commits)) = 2
  /\ commits = <<>>

====
